---- MODULE Spec2Model ----
(***************************************************************************)
(* ttrchive: synchronise a directory of replay files with the records      *)
(* reported by a list of streams (src/main.rs).  One run of main() is      *)
(* modelled step by step, each action being the code between two awaits;   *)
(* the command may then be invoked again on the directory the run left.    *)
(***************************************************************************)
EXTENDS Integers, Sequences, FiniteSets, TLC

(* ------------------------------ bounds --------------------------------- *)
\* records the metadata service reports in one run, all streams together
MaxRecs == 2
\* entries the target directory may hold before the first run
MaxEntries == 2
\* 429 responses counted exactly for one replay; the counters saturate above
Max429 == 2
(* --------------------------- input universes --------------------------- *)
\* args.streams: the positional stream names
Streams == <<"s1", "s2">>

NumStreams == Len(Streams)

\* recorded_at strings: a local time and a UTC offset, in tenths of a second,
\* or a string that is not RFC 3339.
TimeStr(local, off) == [ok |-> TRUE, local |-> local, off |-> off]

BadTimeStr == [ok |-> FALSE, local |-> 0, off |-> 0]

Rec(id, multi, at) == [replay_id |-> id, is_multi |-> multi, recorded_at |-> at]

\* The records a stream may report, in the order a stream lists them.
\* is_multi is an Option<bool>: "none", "true" or "false".
RecordPool ==
    << Rec("a", "none",  TimeStr(130, 30)),
       Rec("a", "false", TimeStr(105, 0)),
       Rec("a", "true",  TimeStr(100, 0)),
       Rec("b", "none",  BadTimeStr) >>

RECURSIVE Pick(_, _)
\* the subsequence of RecordPool at the positions in idx, in pool order
Pick(idx, i) ==
    IF i > Len(RecordPool) THEN << >>
    ELSE IF i \in idx THEN <<RecordPool[i]>> \o Pick(idx, i + 1)
    ELSE Pick(idx, i + 1)

RecordLists ==
    { Pick(idx, 1) : idx \in { s \in SUBSET (1..Len(RecordPool)) : Cardinality(s) <= MaxRecs } }

\* What the metadata service answers for one stream: a failure (transport
\* error, non-2xx status or undecodable body), a decoded body without the
\* data field, or a decoded body with data.records.
StreamResponses ==
    { [kind |-> "fail", records |-> << >>], [kind |-> "nodata", records |-> << >>] }
    \cup { [kind |-> "data", records |-> l] : l \in RecordLists }

RECURSIVE TotalRecords(_, _)
TotalRecords(resp, i) ==
    IF i > NumStreams THEN 0 ELSE Len(resp[i].records) + TotalRecords(resp, i + 1)

\* the answers of the metadata service for all streams
StreamInputs ==
    { resp \in [1..NumStreams -> StreamResponses] : TotalRecords(resp, 1) <= MaxRecs }

(* ------------------------------ Replay --------------------------------- *)
\* TryFrom<Record>: DateTime::parse_from_rfc3339 fails on a bad string
ParseOk(rec) == rec.recorded_at.ok

\* TryFrom<Record> for Replay: the flag defaults to false, the time is
\* converted to the UTC instant
TryFrom(rec) ==
    [id |-> rec.replay_id,
     is_multi |-> (rec.is_multi = "true"),
     timestamp |-> rec.recorded_at.local - rec.recorded_at.off]

\* filename, were the extension the same for both kinds of replay
filenameOneExt(r) ==
    [stamp |-> r.timestamp \div 10, id |-> r.id, ext |-> "ttr"]

\* Replay::filename: "{%Y%m%dT%H%M%SZ}-{id}.{extension}"; the format has no
\* sub-second field.  A file name is kept as its three parts.
filename(r) ==
    [stamp |-> r.timestamp \div 10,
     id |-> r.id,
     ext |-> IF r.is_multi THEN "ttrm" ELSE "ttr"]

\* Replay::url: the content-service resource, determined by the id
url(r) == r.id

\* Path::extension of a path of the directory
Extension(path) == path.ext

RECURSIVE Concat(_)
\* Vec<Vec<Record>>::concat
Concat(ss) == IF ss = << >> THEN << >> ELSE Head(ss) \o Concat(Tail(ss))

RECURSIVE UniqueByIdFrom(_, _)
UniqueByIdFrom(s, seen) ==
    IF s = << >> THEN << >>
    ELSE IF Head(s).id \in seen THEN UniqueByIdFrom(Tail(s), seen)
    ELSE <<Head(s)>> \o UniqueByIdFrom(Tail(s), seen \cup {Head(s).id})

\* Unique, were Replay compared by its id alone
UniqueById(s) == UniqueByIdFrom(s, {})

RECURSIVE UniqueByFilenameFrom(_, _)
UniqueByFilenameFrom(s, seen) ==
    IF s = << >> THEN << >>
    ELSE IF filename(Head(s)) \in seen THEN UniqueByFilenameFrom(Tail(s), seen)
    ELSE <<Head(s)>> \o UniqueByFilenameFrom(Tail(s), seen \cup {filename(Head(s))})

\* Unique, were Replay compared by its file name
UniqueByFilename(s) == UniqueByFilenameFrom(s, {})

RECURSIVE UniqueFrom(_, _)
UniqueFrom(s, seen) ==
    IF s = << >> THEN << >>
    ELSE IF Head(s) \in seen THEN UniqueFrom(Tail(s), seen)
    ELSE <<Head(s)>> \o UniqueFrom(Tail(s), seen \cup {Head(s)})

\* Itertools::unique: keeps the first occurrence of every value (Eq + Hash
\* derived over all three fields of Replay)
Unique(s) == UniqueFrom(s, {})

Range(s) == { s[i] : i \in DOMAIN s }

(* ---------------------------- file system ------------------------------ *)
File(data) == [kind |-> "file", data |-> data]

Dir == [kind |-> "dir", data |-> <<"", "empty">>]

\* content of a file: where it came from and how much of it is there
Old == <<"old", "full">>

Empty == <<"", "empty">>

Body(id) == <<id, "full">>

Part(id) == <<id, "part">>

Name(stamp, id, ext) == [stamp |-> stamp, id |-> id, ext |-> ext]

\* entries the directory may hold before the first run
EntryPool ==
    { [name |-> Name(10, "a", "ttr"),   entry |-> File(Old)],
      [name |-> Name(9, "c", "ttrm"),   entry |-> File(Old)],
      [name |-> Name(9, "d", "txt"),    entry |-> File(Old)],
      [name |-> Name(9, "z", "ttr"),    entry |-> Dir] }

DirOf(es) == [n \in { e.name : e \in es } |-> (CHOOSE e \in es : e.name = n).entry]

InitialDirs == { DirOf(es) : es \in { s \in SUBSET EntryPool : Cardinality(s) <= MaxEntries } }

NoFiles == DirOf({})

\* entries that are not replay files by their extension (D.txt, X.TTR, a
\* name without extension), next to one stale replay file
ForeignPool ==
    { [name |-> Name(9, "d", "txt"),    entry |-> File(Old)],
      [name |-> Name(9, "x", "TTR"),    entry |-> File(Old)],
      [name |-> Name(9, "n", ""),       entry |-> File(Old)],
      [name |-> Name(9, "c", "ttrm"),   entry |-> File(Old)] }

ForeignDirs == { DirOf(es) : es \in { s \in SUBSET ForeignPool : Cardinality(s) <= MaxEntries } }

Put(fs, path, entry) ==
    [n \in DOMAIN fs \cup {path} |-> IF n = path THEN entry ELSE fs[n]]

Del(fs, path) == [n \in DOMAIN fs \ {path} |-> fs[n]]

\* line 133: Duration::from_secs(5)
DelaySecs == 5

\* counters are exact up to Max429 + 1 and saturate there
Bump(n) == IF n <= Max429 THEN n + 1 ELSE n


(* ------------------------------- state --------------------------------- *)
VARIABLES
    streamResp,     \* the metadata service's answer for each stream
    remove,         \* args.remove
    dirExists,      \* whether the target directory exists
    files,          \* the entries of the target directory, by path
    rerun,          \* whether this is the second invocation of the command
    pc,             \* where main() is: fetch, mkdir, check, download, prune, done, error
    err,            \* which error ended the run ("" while there is none)
    fetched,        \* indices of the streams whose fetch_stream has returned Ok
    replays,        \* the deduplicated replays (line 102)
    to_keep,        \* the desired path of every replay (line 109)
    checked,        \* indices of to_keep whose try_exists has returned
    present,        \* indices of to_keep whose try_exists returned true
    to_download,    \* the replays to download (line 114)
    hit_limit,      \* line 124
    dl,             \* index in to_download of the replay the loop is at
    dlpc,           \* where the loop body is: top, send, await, create, body, write
    curReqs,        \* requests sent for the current replay
    cur429,         \* 429 responses received for the current replay
    curSleeps,      \* sleeps made for the current replay
    curSlept,       \* seconds slept for the current replay
    curRepeat,      \* "Inoue returned 429" warnings for the current replay
    engageWarns,    \* "adding a 5 second delay" warnings of the run
    startEngaged,   \* hit_limit when the loop reached the current replay
    requested,      \* indices of to_download a request was sent for
    created,        \* indices of to_download whose File::create has run
    written,        \* indices of to_download whose body was written to its file
    existing,       \* the paths the directory scan collected (line 153)
    pendingDel,     \* to_remove paths whose remove_file has not returned
    deleted,        \* paths removed in this run
    startFiles,     \* files when the run started
    startDirExists, \* dirExists when the run started
    prevOutcome,    \* how the previous run ended: none, done, download (an error
                    \* of the download loop) or failed (any other error)
    prevPending,    \* replays the previous run had not finished downloading
    prevKeep,       \* to_keep of the previous run, if that run computed it
    external        \* paths at which another process created a file in this run

envVars == <<streamResp, remove>>

fsVars == <<dirExists, files>>

fetchVars == <<fetched, replays, to_keep, checked, present, to_download>>

loopVars == <<hit_limit, dl, dlpc, curReqs, cur429, curSleeps, curSlept, curRepeat,
              engageWarns, startEngaged, requested, created, written>>

pruneVars == <<existing, pendingDel, deleted>>

histVars == <<rerun, startFiles, startDirExists, prevOutcome, prevPending, prevKeep,
              external>>

vars == <<envVars, fsVars, pc, err, fetchVars, loopVars, pruneVars, histVars>>

\* the values the locals of main() have before main() assigns them
FreshRun ==
    /\ pc' = "fetch"
    /\ err' = ""
    /\ fetched' = {}
    /\ replays' = << >>
    /\ to_keep' = << >>
    /\ checked' = {}
    /\ present' = {}
    /\ to_download' = << >>
    /\ hit_limit' = FALSE
    /\ dl' = 1
    /\ dlpc' = "top"
    /\ curReqs' = 0
    /\ cur429' = 0
    /\ curSleeps' = 0
    /\ curSlept' = 0
    /\ curRepeat' = 0
    /\ engageWarns' = 0
    /\ startEngaged' = FALSE
    /\ requested' = {}
    /\ created' = {}
    /\ written' = {}
    /\ existing' = {}
    /\ pendingDel' = {}
    /\ deleted' = {}

\* the state when main() starts, the directory holding one of dirs
InitOver(dirs) ==
    /\ streamResp \in StreamInputs
    /\ remove \in BOOLEAN
    /\ \/ dirExists = TRUE /\ files \in dirs
       \/ dirExists = FALSE /\ files = NoFiles
    /\ rerun = FALSE
    /\ pc = "fetch"
    /\ err = ""
    /\ fetched = {}
    /\ replays = << >>
    /\ to_keep = << >>
    /\ checked = {}
    /\ present = {}
    /\ to_download = << >>
    /\ hit_limit = FALSE
    /\ dl = 1
    /\ dlpc = "top"
    /\ curReqs = 0
    /\ cur429 = 0
    /\ curSleeps = 0
    /\ curSlept = 0
    /\ curRepeat = 0
    /\ engageWarns = 0
    /\ startEngaged = FALSE
    /\ requested = {}
    /\ created = {}
    /\ written = {}
    /\ existing = {}
    /\ pendingDel = {}
    /\ deleted = {}
    /\ startFiles = files
    /\ startDirExists = dirExists
    /\ prevOutcome = "none"
    /\ prevPending = << >>
    /\ prevKeep = {}
    /\ external = {}

Init == InitOver(InitialDirs)

\* the run returns Err(e) from main()
Fail(e) == pc' = "error" /\ err' = e

(* ------------------------------- fetch --------------------------------- *)
\* FetchStream, were a missing data field read as an empty record list
FetchStreamDefault(i) ==
    /\ pc = "fetch"
    /\ i \in (1..NumStreams) \ fetched
    /\ IF streamResp[i].kind = "fail" THEN Fail("fetch") /\ UNCHANGED fetched
       ELSE fetched' = fetched \cup {i} /\ UNCHANGED <<pc, err>>
    /\ UNCHANGED <<envVars, fsVars, replays, to_keep, checked, present, to_download,
                   loopVars, pruneVars, histVars>>

\* fetch_stream(stream i) returns: `?` on send, error_for_status or json
\* fails the join; a body without data fails with "Missing stream data"
FetchStream(i) ==
    /\ pc = "fetch"
    /\ i \in (1..NumStreams) \ fetched
    /\ IF streamResp[i].kind = "fail" THEN Fail("fetch") /\ UNCHANGED fetched
       ELSE IF streamResp[i].kind = "nodata" THEN Fail("nodata") /\ UNCHANGED fetched
       ELSE fetched' = fetched \cup {i} /\ UNCHANGED <<pc, err>>
    /\ UNCHANGED <<envVars, fsVars, replays, to_keep, checked, present, to_download,
                   loopVars, pruneVars, histVars>>

\* the records of all streams, in argument order
AllRecords == Concat([i \in 1..NumStreams |-> streamResp[i].records])

\* try_collect of Replay::try_from over the concatenation
AllParseOk == \A k \in DOMAIN AllRecords : ParseOk(AllRecords[k])

Converted == [k \in DOMAIN AllRecords |-> TryFrom(AllRecords[k])]

\* CollectReplays, were the records that do not convert skipped
CollectReplaysLenient ==
    /\ pc = "fetch"
    /\ fetched = 1..NumStreams
    /\ replays' = Unique(SelectSeq(Converted, LAMBDA r : \E k \in DOMAIN AllRecords :
                            ParseOk(AllRecords[k]) /\ TryFrom(AllRecords[k]) = r))
    /\ pc' = "mkdir"
    /\ UNCHANGED <<envVars, fsVars, err, fetched, to_keep, checked, present, to_download,
                   loopVars, pruneVars, histVars>>

\* lines 97-102: the join of all fetches returned Ok; concat, convert, unique
CollectReplays ==
    /\ pc = "fetch"
    /\ fetched = 1..NumStreams
    /\ IF AllParseOk
       THEN /\ replays' = Unique(Converted)
            /\ pc' = "mkdir"
            /\ UNCHANGED err
       ELSE /\ Fail("parse")
            /\ UNCHANGED replays
    /\ UNCHANGED <<envVars, fsVars, fetched, to_keep, checked, present, to_download,
                   loopVars, pruneVars, histVars>>

(* ----------------------------- reconcile ------------------------------- *)
\* lines 109-112: directory.join(filename) of every replay
ToKeep(rs) == [k \in DOMAIN rs |-> filename(rs[k])]

\* lines 104-112 with the directory present or created
EnsureDirectory ==
    /\ pc = "mkdir"
    /\ dirExists' = TRUE
    /\ to_keep' = ToKeep(replays)
    /\ pc' = "check"
    /\ UNCHANGED <<envVars, files, err, fetched, replays, checked, present, to_download,
                   loopVars, pruneVars, histVars>>

\* line 106: create_dir fails (the parent is missing or not writable)
CreateDirFails ==
    /\ pc = "mkdir"
    /\ ~dirExists
    /\ Fail("mkdir")
    /\ UNCHANGED <<envVars, fsVars, fetchVars, loopVars, pruneVars, histVars>>

\* line 116: one of the concurrent try_exists calls returns
TryExists(k) ==
    /\ pc = "check"
    /\ k \in DOMAIN to_keep \ checked
    /\ checked' = checked \cup {k}
    /\ present' = IF to_keep[k] \in DOMAIN files THEN present \cup {k} ELSE present
    /\ UNCHANGED <<envVars, fsVars, pc, err, fetched, replays, to_keep, to_download,
                   loopVars, pruneVars, histVars>>

\* Missing, were the results of the existence checks ignored
MissingAll(rs, found, k) == SubSeq(rs, k, Len(rs))

RECURSIVE Missing(_, _, _)
\* lines 114-121: zip with the results and keep the replays whose path is absent
Missing(rs, found, k) ==
    IF k > Len(rs) THEN << >>
    ELSE IF k \in found THEN Missing(rs, found, k + 1)
    ELSE <<rs[k]>> \o Missing(rs, found, k + 1)

\* Partition, were the existence checks not joined before the zip
PartitionEarly ==
    /\ pc = "check"
    /\ to_download' = Missing(replays, present, 1)
    /\ pc' = "download"
    /\ UNCHANGED <<envVars, fsVars, err, fetched, replays, to_keep, checked, present,
                   loopVars, pruneVars, histVars>>

\* lines 114-124: the join of the existence checks returned
Partition ==
    /\ pc = "check"
    /\ checked = DOMAIN to_keep
    /\ to_download' = Missing(replays, present, 1)
    /\ pc' = "download"
    /\ UNCHANGED <<envVars, fsVars, err, fetched, replays, to_keep, checked, present,
                   loopVars, pruneVars, histVars>>

(* ------------------------------ download ------------------------------ *)
InLoop == pc = "download" /\ dl <= Len(to_download)

\* line 128: the path the current replay is written to
CurPath == filename(to_download[dl])

\* lines 132-134: the loop iteration starts with the flag engaged and sleeps
Sleep ==
    /\ InLoop
    /\ dlpc = "top"
    /\ hit_limit
    /\ curSleeps' = Bump(curSleeps)
    /\ curSlept' = IF curSleeps <= Max429 THEN curSlept + DelaySecs ELSE curSlept
    /\ dlpc' = "send"
    /\ UNCHANGED <<envVars, fsVars, pc, err, fetchVars, hit_limit, dl, curReqs, cur429,
                   curRepeat, engageWarns, startEngaged, requested, created, written,
                   pruneVars, histVars>>

\* line 135: client.get(&url).send() is issued
SendRequest ==
    /\ InLoop
    /\ \/ dlpc = "send"
       \/ dlpc = "top" /\ ~hit_limit
    /\ curReqs' = Bump(curReqs)
    /\ requested' = requested \cup {dl}
    /\ dlpc' = "await"
    /\ UNCHANGED <<envVars, fsVars, pc, err, fetchVars, hit_limit, dl, cur429, curSleeps,
                   curSlept, curRepeat, engageWarns, startEngaged, created, written,
                   pruneVars, histVars>>

\* line 135: send() fails at the transport level
SendFails ==
    /\ InLoop
    /\ dlpc = "await"
    /\ Fail("transport")
    /\ UNCHANGED <<envVars, fsVars, fetchVars, loopVars, pruneVars, histVars>>

\* Response429, were the engagement warning emitted on every 429
Response429AlwaysEngage ==
    /\ InLoop
    /\ dlpc = "await"
    /\ cur429' = Bump(cur429)
    /\ hit_limit' = TRUE
    /\ engageWarns' = Bump(engageWarns)
    /\ dlpc' = "top"
    /\ UNCHANGED <<envVars, fsVars, pc, err, fetchVars, dl, curReqs, curSleeps, curSlept,
                   curRepeat, startEngaged, requested, created, written, pruneVars,
                   histVars>>

\* Response429, were 429 returned as an error like any other status
Response429Fatal ==
    /\ InLoop
    /\ dlpc = "await"
    /\ cur429' = Bump(cur429)
    /\ Fail("http")
    /\ UNCHANGED <<envVars, fsVars, fetchVars, hit_limit, dl, dlpc, curReqs, curSleeps,
                   curSlept, curRepeat, engageWarns, startEngaged, requested, created,
                   written, pruneVars, histVars>>

\* lines 136-142: the response is 429; warn, engage the flag, loop again
Response429 ==
    /\ InLoop
    /\ dlpc = "await"
    /\ cur429' = Bump(cur429)
    /\ IF hit_limit
       THEN /\ curRepeat' = Bump(curRepeat)
            /\ UNCHANGED <<hit_limit, engageWarns>>
       ELSE /\ hit_limit' = TRUE
            /\ engageWarns' = Bump(engageWarns)
            /\ UNCHANGED curRepeat
    /\ dlpc' = "top"
    /\ UNCHANGED <<envVars, fsVars, pc, err, fetchVars, dl, curReqs, curSleeps, curSlept,
                   startEngaged, requested, created, written, pruneVars, histVars>>

\* ResponseError, were the error recorded and the loop continued with the
\* next replay
ResponseErrorSkips ==
    /\ InLoop
    /\ dlpc = "await"
    /\ err' = "http"
    /\ dl' = dl + 1
    /\ dlpc' = "top"
    /\ startEngaged' = hit_limit
    /\ curReqs' = 0
    /\ cur429' = 0
    /\ curSleeps' = 0
    /\ curSlept' = 0
    /\ curRepeat' = 0
    /\ UNCHANGED <<envVars, fsVars, pc, fetchVars, hit_limit, engageWarns, requested,
                   created, written, pruneVars, histVars>>

\* line 144: the response is neither 429 nor 2xx; error_for_status()? returns
ResponseError ==
    /\ InLoop
    /\ dlpc = "await"
    /\ Fail("http")
    /\ UNCHANGED <<envVars, fsVars, fetchVars, loopVars, pruneVars, histVars>>

\* ResponseOk, were the body stored by a task of its own while the loop
\* goes on to the next replay
ResponseOkPipelined ==
    /\ InLoop
    /\ dlpc = "await"
    /\ dl' = dl + 1
    /\ dlpc' = "top"
    /\ startEngaged' = hit_limit
    /\ curReqs' = 0
    /\ cur429' = 0
    /\ curSleeps' = 0
    /\ curSlept' = 0
    /\ curRepeat' = 0
    /\ UNCHANGED <<envVars, fsVars, pc, err, fetchVars, hit_limit, engageWarns,
                   requested, created, written, pruneVars, histVars>>

\* line 144: the response is 2xx; the loop breaks with it
ResponseOk ==
    /\ InLoop
    /\ dlpc = "await"
    /\ dlpc' = "create"
    /\ UNCHANGED <<envVars, fsVars, pc, err, fetchVars, hit_limit, dl, curReqs, cur429,
                   curSleeps, curSlept, curRepeat, engageWarns, startEngaged, requested,
                   created, written, pruneVars, histVars>>

\* CreateFile, were the file opened with create_new: an entry at the path
\* is an error
CreateFileExclusive ==
    /\ InLoop
    /\ dlpc = "create"
    /\ IF CurPath \in DOMAIN files
       THEN /\ Fail("create")
            /\ UNCHANGED <<files, dlpc, created>>
       ELSE /\ files' = Put(files, CurPath, File(Empty))
            /\ created' = created \cup {dl}
            /\ dlpc' = "body"
            /\ UNCHANGED <<pc, err>>
    /\ UNCHANGED <<envVars, dirExists, fetchVars, hit_limit, dl, curReqs, cur429,
                   curSleeps, curSlept, curRepeat, engageWarns, startEngaged, requested,
                   written, pruneVars, histVars>>

\* line 148: File::create creates the file or truncates the one that is
\* there; it fails on a directory
CreateFile ==
    /\ InLoop
    /\ dlpc = "create"
    /\ IF CurPath \in DOMAIN files /\ files[CurPath].kind = "dir"
       THEN /\ Fail("create")
            /\ UNCHANGED <<files, dlpc, created>>
       ELSE /\ files' = Put(files, CurPath, File(Empty))
            /\ created' = created \cup {dl}
            /\ dlpc' = "body"
            /\ UNCHANGED <<pc, err>>
    /\ UNCHANGED <<envVars, dirExists, fetchVars, hit_limit, dl, curReqs, cur429,
                   curSleeps, curSlept, curRepeat, engageWarns, startEngaged, requested,
                   written, pruneVars, histVars>>

\* line 149: response.bytes() returns the whole body
ReadBody ==
    /\ InLoop
    /\ dlpc = "body"
    /\ dlpc' = "write"
    /\ UNCHANGED <<envVars, fsVars, pc, err, fetchVars, hit_limit, dl, curReqs, cur429,
                   curSleeps, curSlept, curRepeat, engageWarns, startEngaged, requested,
                   created, written, pruneVars, histVars>>

\* line 149: response.bytes() fails (the connection drops during the body)
ReadBodyFails ==
    /\ InLoop
    /\ dlpc = "body"
    /\ Fail("body")
    /\ UNCHANGED <<envVars, fsVars, fetchVars, loopVars, pruneVars, histVars>>

\* WriteAll, were the flag cleared after a download that succeeded
WriteAllResetsFlag ==
    /\ InLoop
    /\ dlpc = "write"
    /\ files' = Put(files, CurPath, File(Body(url(to_download[dl]))))
    /\ written' = written \cup {dl}
    /\ dl' = dl + 1
    /\ dlpc' = "top"
    /\ hit_limit' = FALSE
    /\ startEngaged' = FALSE
    /\ curReqs' = 0
    /\ cur429' = 0
    /\ curSleeps' = 0
    /\ curSlept' = 0
    /\ curRepeat' = 0
    /\ UNCHANGED <<envVars, dirExists, pc, err, fetchVars, engageWarns,
                   requested, created, pruneVars, histVars>>

\* lines 149-151: write_all stores the body; the loop goes to the next replay
WriteAll ==
    /\ InLoop
    /\ dlpc = "write"
    /\ files' = Put(files, CurPath, File(Body(url(to_download[dl]))))
    /\ written' = written \cup {dl}
    /\ dl' = dl + 1
    /\ dlpc' = "top"
    /\ startEngaged' = hit_limit
    /\ curReqs' = 0
    /\ cur429' = 0
    /\ curSleeps' = 0
    /\ curSlept' = 0
    /\ curRepeat' = 0
    /\ UNCHANGED <<envVars, dirExists, pc, err, fetchVars, hit_limit, engageWarns,
                   requested, created, pruneVars, histVars>>

\* line 149: write_all fails (disk full, quota) with none or part of the body stored
WriteFails ==
    /\ InLoop
    /\ dlpc = "write"
    /\ \E data \in {Empty, Part(url(to_download[dl]))} :
          files' = Put(files, CurPath, File(data))
    /\ Fail("write")
    /\ UNCHANGED <<envVars, dirExists, fetchVars, loopVars, pruneVars, histVars>>

(* ------------------------------- prune --------------------------------- *)
\* Scan, were the extension not tested
ScanAll(fs) == DOMAIN fs

\* lines 153-162: the entries whose extension is ttr or ttrm
Scan(fs) == { p \in DOMAIN fs : Extension(p) = "ttr" \/ Extension(p) = "ttrm" }

\* ToRemove, were to_keep not consulted
ToRemoveAll(ex, keep) == ex

\* lines 165-168: the scanned paths that are not in to_keep
ToRemove(ex, keep) == { p \in ex : p \notin Range(keep) }

\* ReadDir, were the scan and the removals started while the loop still runs
ReadDirDuringLoop ==
    /\ pc = "download"
    /\ existing' = Scan(files)
    /\ IF remove /\ ToRemove(Scan(files), to_keep) # {}
       THEN /\ pendingDel' = ToRemove(Scan(files), to_keep)
            /\ pc' = "prune"
       ELSE /\ pendingDel' = {}
            /\ pc' = "done"
    /\ UNCHANGED <<envVars, fsVars, err, fetchVars, loopVars, deleted, histVars>>

\* ReadDir, were args.remove not consulted
ReadDirAlwaysPrunes ==
    /\ pc = "download"
    /\ dl > Len(to_download)
    /\ existing' = Scan(files)
    /\ IF ToRemove(Scan(files), to_keep) # {}
       THEN /\ pendingDel' = ToRemove(Scan(files), to_keep)
            /\ pc' = "prune"
       ELSE /\ pendingDel' = {}
            /\ pc' = "done"
    /\ UNCHANGED <<envVars, fsVars, err, fetchVars, loopVars, deleted, histVars>>

\* lines 153-173 up to the join of the removals: scan the directory and, with
\* --remove, start remove_file for every path of to_remove
ReadDir ==
    /\ pc = "download"
    /\ dl > Len(to_download)
    /\ existing' = Scan(files)
    /\ IF remove /\ ToRemove(Scan(files), to_keep) # {}
       THEN /\ pendingDel' = ToRemove(Scan(files), to_keep)
            /\ pc' = "prune"
       ELSE /\ pendingDel' = {}
            /\ pc' = "done"
    /\ UNCHANGED <<envVars, fsVars, err, fetchVars, loopVars, deleted, histVars>>

\* line 170: one remove_file returns; unlink fails on a directory and the
\* join returns its error
RemoveFile(p) ==
    /\ pc = "prune"
    /\ p \in pendingDel
    /\ IF p \in DOMAIN files /\ files[p].kind = "file"
       THEN /\ files' = Del(files, p)
            /\ deleted' = deleted \cup {p}
            /\ pendingDel' = pendingDel \ {p}
            /\ pc' = IF pendingDel = {p} THEN "done" ELSE "prune"
            /\ UNCHANGED err
       ELSE /\ Fail("prune")
            /\ UNCHANGED <<files, deleted, pendingDel>>
    /\ UNCHANGED <<envVars, dirExists, fetchVars, loopVars, existing, histVars>>

(* ----------------------------- invocation ------------------------------ *)
DownloadErrors == {"transport", "http", "create", "body", "write"}

\* the command is invoked a second time with the same arguments, on the
\* directory the finished run left and with the metadata service answering
\* as before
Restart ==
    /\ pc \in {"done", "error"}
    /\ ~rerun
    /\ rerun' = TRUE
    /\ prevOutcome' = IF pc = "done" THEN "done"
                      ELSE IF err \in DownloadErrors THEN "download"
                      ELSE "failed"
    /\ prevPending' = IF pc = "error" /\ err \in DownloadErrors
                      THEN SubSeq(to_download, dl, Len(to_download))
                      ELSE << >>
    /\ prevKeep' = IF pc \in {"check", "download", "prune", "done"}
                      \/ (pc = "error" /\ err \in DownloadErrors \cup {"prune"})
                   THEN {to_keep}
                   ELSE {}
    /\ external' = {}
    /\ startFiles' = files
    /\ startDirExists' = dirExists
    /\ FreshRun
    /\ UNCHANGED <<envVars, fsVars>>

Next ==
    \/ \E i \in 1..NumStreams : FetchStream(i)
    \/ CollectReplays
    \/ EnsureDirectory
    \/ CreateDirFails
    \/ \E k \in 1..MaxRecs : TryExists(k)
    \/ Partition
    \/ Sleep
    \/ SendRequest
    \/ SendFails
    \/ Response429
    \/ ResponseError
    \/ ResponseOk
    \/ CreateFile
    \/ ReadBody
    \/ ReadBodyFails
    \/ WriteAll
    \/ WriteFails
    \/ ReadDir
    \/ \E p \in pendingDel : RemoveFile(p)
    \/ Restart

Spec == Init /\ [][Next]_vars

\* content of a file another process wrote
Foreign == <<"ext", "full">>

\* between lines 116 and 148: another process creates a file at a path of
\* to_keep that its existence check found absent and that the loop has not
\* created yet
ExternalCreate ==
    /\ pc \in {"check", "download"}
    /\ external = {}
    /\ \E k \in checked \ present :
          /\ to_keep[k] \notin DOMAIN files
          /\ files' = Put(files, to_keep[k], File(Foreign))
          /\ external' = {to_keep[k]}
    /\ UNCHANGED <<envVars, dirExists, pc, err, fetchVars, loopVars, pruneVars, rerun,
                   startFiles, startDirExists, prevOutcome, prevPending, prevKeep>>

NextRace == Next \/ ExternalCreate

\* the program next to a process that creates files in the directory
RaceSpec == Init /\ [][NextRace]_vars

\* the same program started in a directory of foreign entries
FrameInit == InitOver(ForeignDirs)

FrameSpec == FrameInit /\ [][Next]_vars

TypeOK ==
    /\ pc \in {"fetch", "mkdir", "check", "download", "prune", "done", "error"}
    /\ dlpc \in {"top", "send", "await", "create", "body", "write"}
    /\ rerun \in BOOLEAN

(* ------------------------------ properties ----------------------------- *)
IsReplayExt(p) == p.ext = "ttr" \/ p.ext = "ttrm"

\* the run has computed to_download (it is past the existence checks)
Partitioned ==
    \/ pc \in {"download", "prune", "done"}
    \/ pc = "error" /\ err \in DownloadErrors \cup {"prune"}

\* the run has computed replays (it is past the fetch)
Collected == Partitioned \/ pc \in {"mkdir", "check"} \/ (pc = "error" /\ err = "mkdir")

\* C1: a run that follows a successful run, with the same stream responses
\* and arguments and on the directory that run left, downloads nothing
\* (no replay selected, no request sent, no file created) and removes nothing.
C1_Idempotence ==
    (rerun /\ prevOutcome = "done") =>
        /\ to_download = << >>
        /\ requested = {} /\ curReqs = 0
        /\ created = {} /\ written = {}
        /\ pendingDel = {} /\ deleted = {}
        /\ files = startFiles

\* a second run with pruning has completed after a first one that downloaded
C1_Witness ==
    /\ rerun /\ prevOutcome = "done" /\ pc = "done" /\ remove
    /\ \E p \in DOMAIN files : files[p] = File(Body("a"))
    /\ \E p \in DOMAIN files : ~IsReplayExt(p)

\* C2: the replays downloaded are exactly the deduplicated replays whose path
\* was absent when the run checked it, in their order; requests are sent for
\* those only, a completed run has written each of them, and an entry that
\* was at a desired path is never touched.
C2_DownloadSelection ==
    /\ Partitioned =>
          /\ to_download = SelectSeq(replays, LAMBDA r : filename(r) \notin DOMAIN startFiles)
          /\ requested \subseteq DOMAIN to_download
          /\ created \subseteq requested
          /\ written \subseteq created
    /\ pc \in {"prune", "done"} => written = DOMAIN to_download
    /\ \A k \in DOMAIN replays :
          filename(replays[k]) \in DOMAIN startFiles =>
              /\ filename(replays[k]) \in DOMAIN files
              /\ files[filename(replays[k])] = startFiles[filename(replays[k])]

\* one desired file was there and kept as it was, another was downloaded
C2_Witness ==
    /\ pc = "done"
    /\ Len(replays) = 2 /\ Len(to_download) = 1 /\ written = {1}
    /\ \E k \in DOMAIN replays :
          /\ filename(replays[k]) \in DOMAIN startFiles
          /\ files[filename(replays[k])] = File(Old)

\* the replay files of a directory
ReplayFiles(fs) == { p \in DOMAIN fs : fs[p].kind = "file" /\ IsReplayExt(p) }

\* C3: no desired path is ever removed; a completed run with pruning has
\* removed exactly the ttr/ttrm files that were there at the start and are not
\* desired, and leaves no ttr/ttrm file that is not desired.
C3_PruneExactness ==
    /\ deleted \cap Range(to_keep) = {}
    /\ (pc = "done" /\ remove) =>
          /\ deleted = { p \in ReplayFiles(startFiles) : p \notin Range(to_keep) }
          /\ ReplayFiles(files) \subseteq Range(to_keep)
          /\ \A k \in written : filename(to_download[k]) \in DOMAIN files

\* a pruning run downloaded a file, removed a stale one and kept a foreign one
C3_Witness ==
    /\ pc = "done" /\ remove
    /\ deleted # {} /\ written # {}
    /\ \E p \in DOMAIN files : ~IsReplayExt(p)

\* the download of the current replay has received its 2xx response
Succeeded == InLoop /\ dlpc \in {"create", "body", "write"}

\* C4: a download that starts with the flag not engaged and gets k >= 1
\* responses 429 and then a 2xx has, when it succeeds, sent k + 1 requests,
\* slept k times for DelaySecs seconds each, warned once of the engagement
\* and k - 1 times of a repeat; while it waits for a response it has slept
\* once for every request but the first.
C4_BackoffAccounting ==
    (InLoop /\ ~startEngaged /\ cur429 <= Max429) =>
        /\ dlpc = "await" => (curSleeps = curReqs - 1 /\ curReqs = cur429 + 1)
        /\ (Succeeded /\ cur429 >= 1) =>
              /\ curReqs = cur429 + 1
              /\ curSleeps = cur429
              /\ curSlept = DelaySecs * cur429
              /\ engageWarns = 1
              /\ curRepeat = cur429 - 1

\* 429 twice, then 2xx: the body is about to be written
C4_Witness ==
    /\ InLoop /\ ~startEngaged /\ dlpc = "write"
    /\ cur429 = 2 /\ curSleeps = 2 /\ curRepeat = 1 /\ engageWarns = 1

\* C5: a status that is neither 2xx nor 429 ends the run in error at the
\* request it answers: nothing is sent for a later replay, no file is created
\* or written for the failing replay, and nothing is scanned or removed.
C5_Non2xxPropagation ==
    err = "http" =>
        /\ pc = "error"
        /\ dl \in DOMAIN to_download /\ dlpc = "await"
        /\ requested = 1..dl
        /\ curReqs = IF cur429 <= Max429 THEN cur429 + 1 ELSE curReqs
        /\ dl \notin created /\ dl \notin written
        /\ written = 1..(dl - 1)
        /\ existing = {} /\ pendingDel = {} /\ deleted = {}
        /\ ReplayFiles(startFiles) \subseteq DOMAIN files

\* the first of two downloads fails with pruning on and a stale file there
C5_Witness ==
    /\ err = "http" /\ remove
    /\ dl = 1 /\ Len(to_download) = 2
    /\ \E p \in ReplayFiles(files) : p \notin Range(to_keep)

\* some stream fails or some fetched record has a bad timestamp
FetchFails ==
    \/ \E i \in 1..NumStreams : streamResp[i].kind # "data"
    \/ \E i \in 1..NumStreams : \E k \in DOMAIN streamResp[i].records :
          ~streamResp[i].records[k].recorded_at.ok

\* C6: when a stream fails or a record does not convert, the run never gets
\* past the fetch: it can only end in a fetch error, the directory is not
\* created and nothing is requested, written or removed.
C6_FetchAllOrNothing ==
    FetchFails =>
        /\ pc \in {"fetch", "error"}
        /\ pc = "error" => err \in {"fetch", "nodata", "parse"}
        /\ dirExists = startDirExists /\ files = startFiles
        /\ replays = << >> /\ to_keep = << >> /\ to_download = << >>
        /\ requested = {} /\ created = {} /\ written = {}
        /\ existing = {} /\ pendingDel = {} /\ deleted = {}

\* a stream had succeeded when another failed, and the directory is missing
C6_Witness ==
    /\ pc = "error" /\ err \in {"fetch", "nodata"}
    /\ fetched # {} /\ ~dirExists
    /\ \E i \in fetched : streamResp[i].records # << >>

EmptyData == [kind |-> "data", records |-> << >>]

\* C7: a response without data is never a fetched stream and the run can
\* only end in a fetch error, which is the data-missing error unless another
\* stream failed; that error is reported only for such a response; a run all
\* of whose streams answer with an empty record list has no fetch error and
\* no replay.
C7_MissingData ==
    /\ \A i \in 1..NumStreams :
          streamResp[i].kind = "nodata" =>
              /\ i \notin fetched
              /\ pc \in {"fetch", "error"}
              /\ pc = "error" => err \in {"nodata", "fetch"}
              /\ (pc = "error" /\ \A j \in 1..NumStreams : streamResp[j].kind # "fail")
                    => err = "nodata"
    /\ err = "nodata" => \E i \in 1..NumStreams : streamResp[i].kind = "nodata"
    /\ (\A i \in 1..NumStreams : streamResp[i] = EmptyData) =>
          /\ err \notin {"fetch", "nodata", "parse"}
          /\ replays = << >> /\ requested = {}
          /\ fetched # {} => \A i \in fetched : streamResp[i].records = << >>

\* a run whose streams all answered with an empty list completed and pruned
C7_Witness ==
    /\ pc = "done" /\ remove /\ deleted # {}
    /\ \A i \in 1..NumStreams : streamResp[i] = EmptyData

\* index of the first occurrence of x in s
FirstIndex(s, x) == CHOOSE k \in DOMAIN s : s[k] = x /\ \A j \in 1..(k - 1) : s[j] # x

NoDuplicates(s) == \A i, j \in DOMAIN s : i # j => s[i] # s[j]

\* C8: replays holds every converted record of the streams once, in the
\* order of first occurrence in the concatenation by argument order, two
\* replays being the same only when id, is_multi and timestamp all agree; so
\* no replay is downloaded twice.
C8_DedupCorrectness ==
    Collected =>
        LET conv == Converted
            pos == [k \in DOMAIN replays |-> FirstIndex(conv, replays[k])]
        IN  /\ NoDuplicates(replays)
            /\ Range(replays) = Range(conv)
            /\ \A i, j \in DOMAIN replays : i < j => pos[i] < pos[j]
            /\ NoDuplicates(to_download)
            /\ \A i, j \in DOMAIN conv :
                  ( \/ conv[i].id # conv[j].id
                    \/ conv[i].is_multi # conv[j].is_multi
                    \/ conv[i].timestamp # conv[j].timestamp )
                  => \E m, n \in DOMAIN replays :
                        m # n /\ replays[m] = conv[i] /\ replays[n] = conv[j]

\* both streams report the same record: one replay, one download, one file
C8_Witness ==
    /\ pc = "done"
    /\ streamResp[1].records # << >> /\ streamResp[1].records = streamResp[2].records
    /\ Len(replays) = 1 /\ written = {1}
    /\ Cardinality(ReplayFiles(files)) = 1

\* C10: when a run stops at an error of the download phase, every replay
\* before the failing one has its whole body at its path and the failing
\* replay and those after it have nothing at their paths; the next run then
\* selects exactly the failing replay and those after it.
C10_RecoveryByReinvocation ==
    /\ (pc = "error" /\ err \in DownloadErrors) =>
          /\ \A k \in 1..(dl - 1) :
                /\ filename(to_download[k]) \in DOMAIN files
                /\ files[filename(to_download[k])] = File(Body(url(to_download[k])))
          /\ \A k \in dl..Len(to_download) : filename(to_download[k]) \notin DOMAIN files
    /\ (rerun /\ prevOutcome = "download" /\ Partitioned) => to_download = prevPending

(* ------------------------------ liveness ------------------------------- *)
\* a step of the run (every action but a new invocation)
RunStep ==
    \/ \E i \in 1..NumStreams : FetchStream(i)
    \/ CollectReplays
    \/ EnsureDirectory
    \/ CreateDirFails
    \/ \E k \in 1..MaxRecs : TryExists(k)
    \/ Partition
    \/ Sleep
    \/ SendRequest
    \/ SendFails
    \/ Response429
    \/ ResponseError
    \/ ResponseOk
    \/ CreateFile
    \/ ReadBody
    \/ ReadBodyFails
    \/ WriteAll
    \/ WriteFails
    \/ ReadDir
    \/ \E p \in pendingDel : RemoveFile(p)

\* the content service answers a request with a status other than 429
Non429Answer == ResponseOk \/ ResponseError

\* The runtime keeps running the task that can run, every pending operation
\* returns, and the content service, asked again and again for a replay,
\* eventually answers with a status other than 429.
LiveSpec == Init /\ [][Next]_vars /\ WF_vars(RunStep) /\ SF_vars(Non429Answer)

Terminated == pc \in {"done", "error"}

\* C9: a 429 response leaves the run in the download loop at the same replay
\* (it never ends the run), and with the content service eventually answering
\* other than 429 every run terminates, in success or in an error.
C9_OnlyRecoverable429 ==
    /\ [][(dlpc = "await" /\ cur429' # cur429 /\ rerun' = rerun) =>
             (pc' = "download" /\ err' = "" /\ dl' = dl /\ dlpc' = "top" /\ hit_limit')]_vars
    /\ []<>Terminated

\* a download succeeded after more 429 responses than the counters count
C9_Witness ==
    /\ Succeeded /\ dlpc = "write"
    /\ cur429 = Max429 + 1 /\ curSleeps = Max429 + 1

(* ------------------------------ filenames ------------------------------ *)
\* the run has computed to_keep
KeepComputed == Partitioned \/ pc = "check"

\* the file name the rendering rule gives a record: the UTC second of its
\* recorded_at (local time less offset, sub-second part dropped), its id and
\* ttrm when the flag is present and true, ttr otherwise
RenderedName(rec) ==
    Name((rec.recorded_at.local - rec.recorded_at.off) \div 10,
         rec.replay_id,
         IF rec.is_multi = "true" THEN "ttrm" ELSE "ttr")

\* C11: the desired paths are the rendered names of the fetched records, one
\* for each replay: a record without the flag or with it false gets ttr, one
\* with it true gets ttrm, the stamp is the UTC second; a downloaded replay is
\* stored under that name, and a second run computes the same names.
C11_FilenameDerivation ==
    KeepComputed =>
        LET recs == AllRecords IN
        /\ Len(to_keep) = Len(replays)
        /\ \A k \in DOMAIN recs : RenderedName(recs[k]) \in Range(to_keep)
        /\ \A k \in DOMAIN to_keep : \E j \in DOMAIN recs :
              /\ to_keep[k] = RenderedName(recs[j])
              /\ replays[k].id = recs[j].replay_id
        /\ \A k \in DOMAIN recs :
              /\ recs[k] = Rec("a", "none", TimeStr(130, 30)) => Name(10, "a", "ttr") \in Range(to_keep)
              /\ recs[k] = Rec("a", "false", TimeStr(105, 0)) => Name(10, "a", "ttr") \in Range(to_keep)
              /\ recs[k] = Rec("a", "true", TimeStr(100, 0)) => Name(10, "a", "ttrm") \in Range(to_keep)
        /\ \A k \in written :
              /\ filename(to_download[k]) \in Range(to_keep)
              /\ filename(to_download[k]).ext = (IF to_download[k].is_multi THEN "ttrm" ELSE "ttr")
        /\ \A keep \in prevKeep : to_keep = keep

\* a second run has the names of the first: a record without the flag at an
\* offset from UTC and a multiplayer record, both stored under their names
C11_Witness ==
    /\ rerun /\ pc = "done" /\ prevKeep = {to_keep}
    /\ to_keep = <<Name(10, "a", "ttr"), Name(10, "a", "ttrm")>>
    /\ Rec("a", "none", TimeStr(130, 30)) \in Range(AllRecords)
    /\ \A k \in DOMAIN to_keep :
          to_keep[k] \in DOMAIN files /\ files[to_keep[k]] = File(Body("a"))

(* ------------------------------- backoff ------------------------------- *)
\* this step sends a request to the content service
IssuesRequest == dlpc # "await" /\ dlpc' = "await"

\* this step is a sleep of the retry loop
Sleeps == dlpc # "send" /\ dlpc' = "send"

\* C12: hit_limit is false until the download loop gets a 429, is set only
\* by a 429 response and stays set for the rest of the run; a request sent
\* with the flag set comes right after one sleep of DelaySecs seconds, a
\* request sent with the flag clear comes with no sleep, and nothing sleeps
\* while the flag is clear.
C12_StickyBackoffFlag ==
    /\ [](pc \in {"fetch", "mkdir", "check"} => ~hit_limit)
    /\ [](~hit_limit => (curSleeps = 0 /\ curSlept = 0 /\ dlpc # "send" /\ engageWarns = 0))
    /\ [](hit_limit => engageWarns = 1)
    /\ [][(hit_limit /\ rerun' = rerun) => hit_limit']_vars
    /\ [][(~hit_limit /\ hit_limit') =>
             (InLoop /\ dlpc = "await" /\ cur429 = 0 /\ cur429' = 1 /\ dlpc' = "top")]_vars
    /\ [][IssuesRequest =>
             IF hit_limit THEN dlpc = "send" ELSE dlpc = "top"]_vars
    /\ [][Sleeps =>
             /\ hit_limit /\ dlpc = "top"
             /\ curSleeps <= Max429 =>
                   (curSleeps' = curSleeps + 1 /\ curSlept' = curSlept + DelaySecs)]_vars
    /\ [][(dlpc = "send" /\ rerun' = rerun) => dlpc' \in {"send", "await"}]_vars

\* the flag was set during the first replay; the second replay slept once
\* before its first request, which succeeded at once
C12_Witness ==
    /\ InLoop /\ dl = 2 /\ hit_limit /\ startEngaged
    /\ dlpc = "create" /\ cur429 = 0 /\ curReqs = 1 /\ curSleeps = 1

(* ------------------------------ sequencing ----------------------------- *)
\* the file of the k-th replay of to_download holds the whole response body
Stored(k) ==
    /\ filename(to_download[k]) \in DOMAIN files
    /\ files[filename(to_download[k])] = File(Body(url(to_download[k])))

\* C13: the replays are downloaded one after the other in the order of the
\* deduplicated list: the replays written are those before the current one,
\* only the current one can have a request sent and no body written, and
\* when the first request for a replay is out every earlier replay has its
\* whole body in its file.
C13_SequentialDownloads ==
    Partitioned =>
        /\ written = 1..(dl - 1)
        /\ 1..(dl - 1) \subseteq requested /\ requested \subseteq 1..dl
        /\ requested \ written \subseteq {dl}
        /\ created \ written \subseteq {dl}
        /\ (dl \in requested /\ dl \notin created) => \A j \in 1..(dl - 1) : Stored(j)
        /\ (pc = "download" /\ dlpc \notin {"top", "send"}) => dl \in requested
        /\ \A i, j \in DOMAIN to_download :
              i < j => FirstIndex(replays, to_download[i]) < FirstIndex(replays, to_download[j])

\* the request for the second replay is out; the first replay was retried
\* after a 429 and a sleep, and its body is in its file
C13_Witness ==
    /\ InLoop /\ dl = 2 /\ dlpc = "await" /\ curReqs = 1
    /\ startEngaged /\ written = {1} /\ Stored(1)
    /\ filename(to_download[1]) # filename(to_download[2])

(* ----------------------------- directories ----------------------------- *)
\* C14: an entry of the target directory that is a directory is never among
\* the scanned paths and never handed to remove_file, whatever its name, and
\* no run fails in the prune because of it.
C14_DirectoriesIgnored ==
    /\ \A p \in DOMAIN files :
          files[p].kind = "dir" => (p \notin existing /\ p \notin pendingDel /\ p \notin deleted)
    /\ err # "prune"

(* -------------------------------- frame -------------------------------- *)
\* C15: without --remove no run removes anything: every entry that was
\* there at the start of the run is still there; and in every run, with or
\* without the flag, the entries whose extension is neither ttr nor ttrm are
\* the same, with the same content, as at the start: none is removed, none
\* is created, none is changed, and none is scanned or handed to remove_file.
C15_GatedDeletionAndFrame ==
    /\ ~remove =>
          /\ pendingDel = {} /\ deleted = {}
          /\ DOMAIN startFiles \subseteq DOMAIN files
    /\ { p \in DOMAIN files : ~IsReplayExt(p) } = { p \in DOMAIN startFiles : ~IsReplayExt(p) }
    /\ \A p \in DOMAIN startFiles : ~IsReplayExt(p) => files[p] = startFiles[p]
    /\ \A p \in existing \cup pendingDel \cup deleted : IsReplayExt(p)

\* a run without --remove completed with a stale replay file and a foreign
\* file still there, after downloading
C15_Witness ==
    /\ pc = "done" /\ ~remove /\ written # {}
    /\ \E p, q \in DOMAIN files :
          /\ p.ext = "TTR" /\ files[p] = File(Old)
          /\ q.ext \in {"txt", ""} /\ files[q] = File(Old)

\* a run with --remove removed the stale replay file next to a foreign entry
C15_PruneWitness ==
    /\ pc = "done" /\ remove /\ deleted # {}
    /\ \E p \in DOMAIN files : ~IsReplayExt(p)

(* ------------------------------- ordering ------------------------------ *)
\* C16: the phases of a run are ordered.  An existence check has returned
\* only when the directory exists; a request has been sent to the content
\* service only when every existence check has returned; the directory has
\* been scanned, and a deletion is pending or done, only when every replay
\* of to_download has been requested, created and written; so a run that
\* failed in the download loop has scanned nothing, deleted nothing and
\* left every entry of the start in place.
C16_PipelineOrdering ==
    /\ (checked # {} \/ to_download # << >>) => dirExists
    /\ pc = "check" => dirExists
    /\ (requested # {} \/ created # {} \/ dlpc # "top") =>
          /\ checked = DOMAIN to_keep
          /\ Partitioned
    /\ Partitioned => checked = DOMAIN to_keep
    /\ (existing # {} \/ pendingDel # {} \/ deleted # {} \/ pc \in {"prune", "done"}) =>
          /\ written = DOMAIN to_download
          /\ requested = DOMAIN to_download
          /\ created = DOMAIN to_download
          /\ \A j \in DOMAIN to_download : Stored(j)
    /\ (pc = "error" /\ err \in DownloadErrors) =>
          /\ existing = {} /\ pendingDel = {} /\ deleted = {}
          /\ DOMAIN startFiles \subseteq DOMAIN files

\* a run with --remove downloaded two replays and then removed a stale file
C16_Witness ==
    /\ remove /\ pc = "done"
    /\ Len(to_download) = 2 /\ written = {1, 2}
    /\ deleted # {}

\* a run with --remove and a stale file in the directory failed in the
\* download loop after its first download
C16_FailWitness ==
    /\ remove /\ pc = "error" /\ err \in DownloadErrors
    /\ written = {1}
    /\ \E p \in ReplayFiles(startFiles) : p \notin Range(to_keep) /\ p \in DOMAIN files

(* ------------------------------- writers ------------------------------- *)
\* the paths the download loop has created or written in this run
DownloadPaths == { filename(to_download[j]) : j \in created \cup written }

\* a download has a file open: created and not yet written to its end
OpenForWrite == created \ written

\* C17: the directory never has two writers at once.  While a removal is
\* pending the download loop is over and no download has a file open; at
\* most one download, the current one, has a file open at any time; and the
\* removals pending together, and the removals done, are on paths that no
\* download of this run created or wrote and that to_keep does not hold.
C17_NoConcurrentWriters ==
    /\ pendingDel # {} =>
          /\ pc = "prune" \/ (pc = "error" /\ err = "prune")
          /\ dl > Len(to_download)
          /\ dlpc = "top"
          /\ OpenForWrite = {}
    /\ OpenForWrite \subseteq {dl}
    /\ Cardinality(OpenForWrite) <= 1
    /\ OpenForWrite # {} => (dlpc \in {"body", "write"} \/ pc = "error")
    /\ (pendingDel \cup deleted) \cap DownloadPaths = {}
    /\ (pendingDel \cup deleted) \cap Range(to_keep) = {}
    /\ pendingDel \cap deleted = {}

\* two removals are pending together after the loop wrote a download
C17_Witness ==
    /\ pc = "prune"
    /\ Cardinality(pendingDel) = 2
    /\ written # {}

(* --------------------------- check-then-write -------------------------- *)
\* the replays of to_download whose path another process created
Raced == { j \in DOMAIN to_download : filename(to_download[j]) \in external }

\* C18: a file that another process creates at a path of to_keep, after the
\* existence check found the path absent and before the loop creates it, is
\* not noticed.  The replay of that path stays in to_download; File::create
\* on that path does not fail but truncates the file; once the replay is
\* written, and no other replay of the same path has the file open, the
\* file holds the response body, not the other process's content; and a run that completes has written every replay of
\* to_download, the raced ones included.
C18_CheckThenWriteRace ==
    /\ [](external # {} => err # "create")
    /\ []((external # {} /\ Partitioned) => Raced # {})
    /\ [](\A j \in Raced : (j \in written /\ OpenForWrite \cap Raced = {}) => Stored(j))
    /\ []((external # {} /\ pc \in {"prune", "done"}) =>
             /\ written = DOMAIN to_download
             /\ \A j \in Raced : Stored(j))
    /\ [][(pc = "download" /\ dlpc = "create" /\ dl \in Raced)
            => (/\ pc' = "download" /\ dlpc' = "body"
                /\ files[CurPath] \in {File(Foreign)} \cup
                      { File(Body(url(to_download[j]))) : j \in Raced \cap 1..(dl - 1) }
                /\ files'[CurPath] = File(Empty))]_vars

\* a run completed after another process had created a file at a path that
\* the run then downloaded
C18_Witness ==
    /\ external # {}
    /\ pc = "done"
    /\ Raced # {}
    /\ \A j \in Raced : j \in written /\ Stored(j)

\* File::create is about to open a path that holds the other process's file
C18_RaceWitness ==
    /\ pc = "download" /\ dlpc = "create"
    /\ CurPath \in external
    /\ files[CurPath] = File(Foreign)

(* -------------------------- duplicate file names ----------------------- *)
\* the positions of to_keep that hold path p
KeepPositions(p) == { k \in DOMAIN to_keep : to_keep[k] = p }

\* the positions of to_download whose replay is written to path p
DownloadPositions(p) == { j \in DOMAIN to_download : filename(to_download[j]) = p }

\* the distinct replays of the streams whose file name is p
ReplaysNamed(p) == { r \in Range(Converted) : filename(r) = p }

\* C19: replays that differ (here in their timestamp, the second being the
\* same) and have the same file name are all kept apart.  to_keep holds the
\* path once for every one of them; when the path is absent at the existence
\* checks all of them are in to_download, and none when it is present; a run
\* that completes has sent a request and written the path for every one of
\* them, and the directory then holds one file at that path, with the body of
\* their common id, so fewer new files than downloads.
C19_DuplicateFilenames ==
    KeepComputed =>
        \A p \in { filename(r) : r \in Range(Converted) } :
            /\ Cardinality(KeepPositions(p)) = Cardinality(ReplaysNamed(p))
            /\ Partitioned =>
                  /\ p \notin DOMAIN startFiles =>
                        Cardinality(DownloadPositions(p)) = Cardinality(ReplaysNamed(p))
                  /\ p \in DOMAIN startFiles => DownloadPositions(p) = {}
            /\ (pc \in {"prune", "done"} /\ p \notin DOMAIN startFiles) =>
                  /\ DownloadPositions(p) \subseteq requested \cap created \cap written
                  /\ p \in DOMAIN files
                  /\ files[p] = File(Body(p.id))
                  /\ Cardinality(DOMAIN files \ DOMAIN startFiles)
                        = Cardinality({ filename(r) : r \in Range(to_download) })

\* a run completed that downloaded two different replays to one path
C19_Witness ==
    /\ pc = "done"
    /\ Len(to_download) = 2
    /\ to_download[1] # to_download[2]
    /\ filename(to_download[1]) = filename(to_download[2])
    /\ to_keep[1] = to_keep[2]
    /\ requested = {1, 2} /\ written = {1, 2}
    /\ Cardinality(DOMAIN files \ DOMAIN startFiles) = 1

====
